---- MODULE Spec2Model ----
(***************************************************************************)
(* football-data.org historical ingestion engine (app.py).                 *)
(*                                                                         *)
(* Values of the Python program are tagged tuples, the tag first:          *)
(*   <<"none">>  None          <<"nan">>  a missing value read from a CSV  *)
(*   <<"int", n>>  an integer  <<"str", cs>>  a string, cs its characters  *)
(*   <<"ts", n>>   a pandas Timestamp at 00:00 of the day whose proleptic  *)
(*                 Gregorian ordinal (date.toordinal()) is n               *)
(* A DataFrame is the sequence of its rows, a row a record of the eight    *)
(* columns.  DataFrame.sort_values("Date") uses the default kind           *)
(* "quicksort", which is not stable: the order of rows with equal dates is *)
(* not determined by the code, so every operation that sorts yields the    *)
(* SET of frames it may produce.                                           *)
(***************************************************************************)
EXTENDS Integers, Sequences, FiniteSets, TLC

(* ------------------------------ bounds -------------------------------- *)
MaxLen == 2        \* rows of a record collection handed to a function
MaxIncoming == 1   \* rows of the second argument of merge_dedup
MaxFileRows == 2   \* rows of an externally produced cache file
MaxPayload == 2    \* match entries of one remote response
MaxClicks == 2     \* button presses of one session

(* ------------------------------ strings ------------------------------- *)
None == <<"none">>
NaN == <<"nan">>
Str(cs) == <<"str", cs>>
Int_(n) == <<"int", n>>
Ts(n) == <<"ts", n>>

IsNA(v) == v[1] \in {"none", "nan"}

Whitespace == {" "}

RECURSIVE lstrip(_)
lstrip(cs) == IF cs # <<>> /\ Head(cs) \in Whitespace THEN lstrip(Tail(cs)) ELSE cs

RECURSIVE rstrip(_)
rstrip(cs) ==
  IF cs # <<>> /\ cs[Len(cs)] \in Whitespace THEN rstrip(SubSeq(cs, 1, Len(cs) - 1)) ELSE cs

\* str.strip()
strip(cs) == rstrip(lstrip(cs))

Digits == <<"0", "1", "2", "3", "4", "5", "6", "7", "8", "9">>
IsDigit(c) == \E i \in 1..10 : Digits[i] = c
DigitVal(c) == (CHOOSE i \in 1..10 : Digits[i] = c) - 1

RECURSIVE NatToChars(_)
NatToChars(n) == IF n < 10 THEN <<Digits[n + 1]>> ELSE Append(NatToChars(n \div 10), Digits[(n % 10) + 1])

\* str(n) of an int
IntToChars(n) == IF n < 0 THEN <<"-">> \o NatToChars(0 - n) ELSE NatToChars(n)

AllDigits(cs) == cs # <<>> /\ \A i \in 1..Len(cs) : IsDigit(cs[i])

RECURSIVE CharsToNat(_)
CharsToNat(cs) == IF cs = <<>> THEN 0 ELSE 10 * CharsToNat(SubSeq(cs, 1, Len(cs) - 1)) + DigitVal(cs[Len(cs)])

IsIntText(cs) == AllDigits(cs) \/ (cs # <<>> /\ Head(cs) = "-" /\ AllDigits(Tail(cs)))
CharsToInt(cs) == IF Head(cs) = "-" THEN 0 - CharsToNat(Tail(cs)) ELSE CharsToNat(cs)

\* zero-padded decimal of width w (the %02d / %04d of date.isoformat())
RECURSIVE ZeroPad(_, _)
ZeroPad(cs, w) == IF Len(cs) >= w THEN cs ELSE ZeroPad(<<"0">> \o cs, w)

RECURSIVE Join(_, _)
\* sep.join(parts), parts a sequence of character sequences
Join(sep, parts) ==
  IF parts = <<>> THEN <<>>
  ELSE IF Len(parts) = 1 THEN parts[1]
  ELSE parts[1] \o sep \o Join(sep, Tail(parts))

(* ------------------------------ calendar ------------------------------ *)
Years == 2022..2025

IsLeap(y) == (y % 4 = 0) /\ ((y % 100 # 0) \/ (y % 400 = 0))
DaysInMonth(y, m) ==
  IF m = 2 THEN (IF IsLeap(y) THEN 29 ELSE 28)
  ELSE IF m \in {4, 6, 9, 11} THEN 30 ELSE 31

DaysBeforeYear(y) == (y - 1) * 365 + ((y - 1) \div 4) - ((y - 1) \div 100) + ((y - 1) \div 400)

RECURSIVE DaysBeforeMonth(_, _)
DaysBeforeMonth(y, m) == IF m = 1 THEN 0 ELSE DaysBeforeMonth(y, m - 1) + DaysInMonth(y, m - 1)

\* date(y, m, d).toordinal()
ToOrdinal(y, m, d) == DaysBeforeYear(y) + DaysBeforeMonth(y, m) + d

\* date.fromordinal(n) as <<y, m, d>>
FromOrdinal(n) ==
  LET y == CHOOSE yy \in Years : DaysBeforeYear(yy) < n /\ n <= DaysBeforeYear(yy + 1)
      r == n - DaysBeforeYear(y)
      m == CHOOSE mm \in 1..12 : DaysBeforeMonth(y, mm) < r /\ r <= DaysBeforeMonth(y, mm) + DaysInMonth(y, mm)
  IN  <<y, m, r - DaysBeforeMonth(y, m)>>

\* date.isoformat(): YYYY-MM-DD
IsoFormat(n) ==
  LET ymd == FromOrdinal(n)
  IN  ZeroPad(NatToChars(ymd[1]), 4) \o <<"-">> \o ZeroPad(NatToChars(ymd[2]), 2)
        \o <<"-">> \o ZeroPad(NatToChars(ymd[3]), 2)

\* the days the session can meet, and their texts and years computed once
Days == ToOrdinal(2023, 12, 20)..ToOrdinal(2024, 1, 10)
IsoTable == [n \in Days |-> IsoFormat(n)]
YearTable == [n \in Days |-> FromOrdinal(n)[1]]

\* str(date)
DateToChars(n) == IsoTable[n]

\* Timestamp.year
YearOf(n) == YearTable[n]

\* the text is an ISO calendar date YYYY-MM-DD that exists
IsDateText(cs) ==
  /\ Len(cs) = 10
  /\ cs[5] = "-" /\ cs[8] = "-"
  /\ AllDigits(SubSeq(cs, 1, 4)) /\ AllDigits(SubSeq(cs, 6, 7)) /\ AllDigits(SubSeq(cs, 9, 10))
  /\ LET y == CharsToNat(SubSeq(cs, 1, 4))
         m == CharsToNat(SubSeq(cs, 6, 7))
         d == CharsToNat(SubSeq(cs, 9, 10))
     IN  y \in Years /\ m \in 1..12 /\ d \in 1..DaysInMonth(y, m)

ParseDateText(cs) ==
  ToOrdinal(CharsToNat(SubSeq(cs, 1, 4)), CharsToNat(SubSeq(cs, 6, 7)), CharsToNat(SubSeq(cs, 9, 10)))

\* pd.to_datetime(v, errors="coerce") of one value: NaT is None
to_datetime(v) ==
  IF v[1] = "ts" THEN v
  ELSE IF v[1] = "str" /\ IsDateText(v[2]) THEN Ts(ParseDateText(v[2]))
  ELSE None

(* ----------------------------- _standardize ---------------------------- *)
\* Series.astype(str) of one value
astype_str(v) ==
  IF v[1] = "str" THEN v[2]
  ELSE IF v[1] = "int" THEN IntToChars(v[2])
  ELSE IF v[1] = "ts" THEN DateToChars(v[2])
  ELSE IF v[1] = "none" THEN <<"N", "o", "n", "e">>
  ELSE <<"n", "a", "n">>

\* pd.to_numeric(v, errors="coerce").fillna(-1).astype(int) of one value
season_int(v) ==
  IF v[1] = "int" THEN v[2]
  ELSE IF v[1] = "str" /\ IsIntText(v[2]) THEN CharsToInt(v[2])
  ELSE -1

\* lines 125-126: the rows dropna keeps, after the Date coercion
KeptByDropna(r) ==
  /\ ~IsNA(to_datetime(r.Date))
  /\ ~IsNA(r.HomeTeam) /\ ~IsNA(r.AwayTeam)
  /\ ~IsNA(r.FTHG) /\ ~IsNA(r.FTAG)

\* lines 125-133 on one kept row
CoerceRow(r) ==
  [Date |-> to_datetime(r.Date),
   HomeTeam |-> Str(strip(astype_str(r.HomeTeam))),
   AwayTeam |-> Str(strip(astype_str(r.AwayTeam))),
   FTHG |-> Int_(r.FTHG[2]),
   FTAG |-> Int_(r.FTAG[2]),
   Competition |-> Str(strip(astype_str(r.Competition))),
   CompCode |-> Str(strip(astype_str(r.CompCode))),
   Season |-> Int_(season_int(r.Season))]

RECURSIVE CoerceRows(_)
CoerceRows(rows) ==
  IF rows = <<>> THEN <<>>
  ELSE IF KeptByDropna(Head(rows)) THEN <<CoerceRow(Head(rows))>> \o CoerceRows(Tail(rows))
  ELSE CoerceRows(Tail(rows))

RemoveAt(s, i) == SubSeq(s, 1, i - 1) \o SubSeq(s, i + 1, Len(s))

\* a slip: the frame is returned in the order it came
sort_values_unsorted(rows) == {rows}

RECURSIVE sort_values(_)
\* DataFrame.sort_values("Date").reset_index(drop=True): every arrangement
\* of the rows that is non-decreasing by Date (kind="quicksort" is unstable)
sort_values(rows) ==
  IF rows = <<>> THEN {<<>>}
  ELSE LET first == { rows[j] : j \in { i \in 1..Len(rows) :
                                          \A k \in 1..Len(rows) : rows[i].Date[2] <= rows[k].Date[2] } }
           At(r) == CHOOSE i \in 1..Len(rows) : rows[i] = r
       IN  UNION { { <<r>> \o t : t \in sort_values(RemoveAt(rows, At(r))) } : r \in first }

\* a DataFrame of the given rows; None stands for an absent frame
DF(rows) == <<"df", rows>>
Rows(df) == df[2]
EmptyFrame == DF(<<>>)

\* _standardize(df): df is None or a DataFrame
standardize(df) ==
  IF df = None \/ Rows(df) = <<>> THEN {EmptyFrame}
  ELSE { DF(t) : t \in sort_values(CoerceRows(Rows(df))) }

(* ----------------------------- merge_dedup ----------------------------- *)
IdentityKey(r) == <<r.CompCode, r.Season, r.Date, r.HomeTeam, r.AwayTeam, r.FTHG, r.FTAG>>

\* a slip: keep="first"
drop_duplicates_keep_first(rows) ==
  LET keep == { i \in 1..Len(rows) : \A j \in 1..(i - 1) : IdentityKey(rows[j]) # IdentityKey(rows[i]) }
      F[i \in 0..Len(rows)] ==
        IF i = 0 THEN <<>> ELSE IF i \in keep THEN Append(F[i - 1], rows[i]) ELSE F[i - 1]
  IN  F[Len(rows)]

\* DataFrame.drop_duplicates(subset=identity key, keep="last")
drop_duplicates(rows) ==
  LET keep == { i \in 1..Len(rows) : \A j \in (i + 1)..Len(rows) : IdentityKey(rows[j]) # IdentityKey(rows[i]) }
      F[i \in 0..Len(rows)] ==
        IF i = 0 THEN <<>> ELSE IF i \in keep THEN Append(F[i - 1], rows[i]) ELSE F[i - 1]
  IN  F[Len(rows)]

merge_dedup(existing, incoming) ==
  UNION { UNION { { DF(t) : t \in sort_values(drop_duplicates(Rows(e) \o Rows(i))) } :
                  i \in standardize(incoming) } :
          e \in standardize(existing) }

\* existing_comp_seasons(df): the pairs do not depend on the order of the rows
existing_comp_seasons(df) ==
  LET d == Rows(CHOOSE x \in standardize(df) : TRUE)
  IN  { <<d[i].CompCode[2], d[i].Season[2]>> : i \in 1..Len(d) }


(* ------------------------------- cache --------------------------------- *)
\* a CSV file of the given data rows (the header row is the eight column
\* names); every cell of a data row is text, a character sequence
File(rows) == <<"file", rows>>

\* DataFrame.to_csv of one value
to_csv_cell(v) ==
  IF v[1] = "ts" THEN DateToChars(v[2])
  ELSE IF v[1] = "int" THEN IntToChars(v[2])
  ELSE IF v[1] = "str" THEN v[2]
  ELSE <<>>

to_csv_row(r) == [c \in DOMAIN r |-> to_csv_cell(r[c])]

\* the texts pd.read_csv reads as a missing value (its default na_values)
NaTokens == { <<>>, <<"N", "A">>, <<"n", "a", "n">>, <<"N", "a", "N">>, <<"N", "o", "n", "e">>,
              <<"n", "u", "l", "l">>, <<"N", "U", "L", "L">> }

\* pd.read_csv of one cell
read_csv_cell(cs) ==
  IF cs \in NaTokens THEN NaN
  ELSE IF IsIntText(cs) THEN Int_(CharsToInt(cs))
  ELSE Str(cs)

read_csv_row(r) == [c \in DOMAIN r |-> read_csv_cell(r[c])]

read_csv(file) == DF([i \in 1..Len(file[2]) |-> read_csv_row(file[2][i])])

\* load_cache(path): file is None when the path does not exist
load_cache(file) ==
  IF file = None THEN {None}
  ELSE standardize(read_csv(file))

\* save_cache(df, path): the file contents it may write
save_cache(df) ==
  { File([i \in 1..Len(Rows(d)) |-> to_csv_row(Rows(d)[i])]) : d \in standardize(df) }

(* --------------------------- _normalize_payload ------------------------- *)
\* lines 96-104: the entries the loop keeps
KeptEntry(m) ==
  /\ m.status = "FINISHED"
  /\ m.ftHome # None /\ m.ftAway # None
  /\ ~IsNA(to_datetime(m.utcDate))

\* lines 107-116
EntryRow(m, season_hint) ==
  LET dt == to_datetime(m.utcDate)
  IN  [Date |-> dt,
       HomeTeam |-> m.homeName,
       AwayTeam |-> m.awayName,
       FTHG |-> Int_(m.ftHome[2]),
       FTAG |-> Int_(m.ftAway[2]),
       Competition |-> m.compName,
       CompCode |-> m.compCode,
       Season |-> IF season_hint # None THEN season_hint ELSE Int_(YearOf(dt[2]))]

RECURSIVE normalize_payload(_, _)
\* the rows of the returned frame; payload is the "matches" list
normalize_payload(payload, season_hint) ==
  IF payload = <<>> THEN <<>>
  ELSE IF KeptEntry(Head(payload))
       THEN <<EntryRow(Head(payload), season_hint)>> \o normalize_payload(Tail(payload), season_hint)
       ELSE normalize_payload(Tail(payload), season_hint)


(* --------------------------- the remote service ------------------------- *)
PL == <<"P", "L">>
PD == <<"P", "D">>
EPL == <<"E", "P", "L">>
LaLiga == <<"L", "i", "g", "a">>
TeamA == <<"A">>
TeamB == <<"B">>
TeamC == <<"C">>
TeamD == <<"D">>
Dec30 == <<"2", "0", "2", "3", "-", "1", "2", "-", "3", "0">>
Dec28 == <<"2", "0", "2", "3", "-", "1", "2", "-", "2", "8">>
Jan02 == <<"2", "0", "2", "4", "-", "0", "1", "-", "0", "2">>
Jan03 == <<"2", "0", "2", "4", "-", "0", "1", "-", "0", "3">>
NoDate == <<"T", "B", "D">>

\* a match object of a response, with what the service filters on: the
\* season it files the match under and the day the match is played
Entry(status, hg, ag, utc, home, away, cname, ccode, season, day) ==
  [status |-> status, ftHome |-> hg, ftAway |-> ag, utcDate |-> Str(utc),
   homeName |-> Str(home), awayName |-> Str(away), compName |-> Str(cname),
   compCode |-> Str(ccode), srvSeason |-> season, srvDay |-> day]

\* the matches the service knows, in the order it lists them
RemoteMatches ==
  << Entry("FINISHED", Int_(1), Int_(0), Jan02, TeamA, TeamB, EPL, PL, 2023, ToOrdinal(2024, 1, 2)),
     Entry("FINISHED", Int_(0), Int_(0), Dec30, TeamB, TeamA, EPL, PL, 2023, ToOrdinal(2023, 12, 30)),
     Entry("FINISHED", Int_(2), Int_(1), Dec28, TeamC, TeamD, LaLiga, PD, 2023, ToOrdinal(2023, 12, 28)),
     Entry("SCHEDULED", None, None, Jan03, TeamB, TeamA, EPL, PL, 2023, ToOrdinal(2024, 1, 3)),
     Entry("FINISHED", Int_(1), None, Jan02, TeamD, TeamC, LaLiga, PD, 2023, ToOrdinal(2024, 1, 2)),
     Entry("FINISHED", Int_(0), Int_(2), NoDate, TeamD, TeamC, LaLiga, PD, 2023, ToOrdinal(2024, 1, 3)) >>

RECURSIVE SubSeqsUpTo(_, _)
\* the subsequences of s of at most k elements
SubSeqsUpTo(s, k) ==
  IF s = <<>> \/ k = 0 THEN {<<>>}
  ELSE SubSeqsUpTo(Tail(s), k)
         \cup { <<Head(s)>> \o t : t \in SubSeqsUpTo(Tail(s), k - 1) }

Filter(s, Test(_)) == SelectSeq(s, Test)

RECURSIVE SplitComma(_)
\* the codes of a comma-separated list
SplitComma(cs) ==
  IF \A i \in 1..Len(cs) : cs[i] # ","
  THEN <<cs>>
  ELSE LET i == CHOOSE j \in 1..Len(cs) : cs[j] = "," /\ \A k \in 1..(j - 1) : cs[k] # ","
       IN  <<SubSeq(cs, 1, i - 1)>> \o SplitComma(SubSeq(cs, i + 1, Len(cs)))

\* fetch_competition_matches(code, season): the "matches" lists a successful
\* GET /competitions/{code}/matches?season={season} may answer with
fetch_competition_matches(code, season) ==
  LET Match(m) == m.compCode = Str(code) /\ m.srvSeason = season
  IN  SubSeqsUpTo(SelectSeq(RemoteMatches, Match), MaxPayload)

\* lines 78-80: the query parameters of fetch_matches_by_date
by_date_params(date_from, date_to, competitions) ==
  [dateFrom |-> date_from, dateTo |-> date_to, status |-> "FINISHED",
   competitions |-> IF competitions # <<>> THEN Str(competitions) ELSE None]

\* the "matches" lists a successful GET /matches with these parameters may
\* answer with: the date range is inclusive, the competitions filter optional
matches_by_date(params) ==
  LET codes == IF params.competitions = None THEN <<>> ELSE SplitComma(params.competitions[2])
      Match(m) ==
        /\ m.status = params.status
        /\ IsDateText(params.dateFrom) /\ IsDateText(params.dateTo)
        /\ ParseDateText(params.dateFrom) <= m.srvDay /\ m.srvDay <= ParseDateText(params.dateTo)
        /\ (params.competitions = None \/ \E i \in 1..Len(codes) : m.compCode = Str(codes[i]))
  IN  SubSeqsUpTo(SelectSeq(RemoteMatches, Match), MaxPayload)

(* ------------------------------ the session ---------------------------- *)
VARIABLES
  sess,       \* st.session_state["fd_hist"], None while the key is not set
  cache,      \* the cache file at cache_path, None while it does not exist
  pc,         \* "idle", or where ingest_missing_seasons stands: "loop", "sleep"
  df_hist,    \* ingest_missing_seasons: its argument df_hist
  have,       \* ingest_missing_seasons: have
  todo,       \* ingest_missing_seasons: the (code, season) pairs still to visit
  parts,      \* ingest_missing_seasons: parts
  log,        \* what the running or last ingest did, in order
  skipped,    \* the pairs the running or last ingest skipped
  fetched,    \* the pairs some ingest fetched successfully, ever
  sess0,      \* sess when the running or failed handler started
  cache0,     \* cache when the running or failed handler started
  action,     \* the last button pressed: "none", "load", "ingest", "refresh"
  outcome,    \* "none", "running", "done", "failed" (the handler raised)
  sel,        \* the last button's inputs: selected codes, seasons, today
  requests,   \* the GET /matches queries of the last refresh
  clicks,     \* buttons pressed so far
  cache_init, \* whether a cache file existed when the session started
  arg1, arg2, res1, res2, fn   \* a function applied on its own: inputs, results

ingestVars == <<df_hist, have, todo, parts, log, skipped>>
fnVars == <<arg1, arg2, res1, res2, fn>>
vars == <<sess, cache, pc, df_hist, have, todo, parts, log, skipped, fetched, sess0, cache0,
          action, outcome, sel, requests, clicks, cache_init, arg1, arg2, res1, res2, fn>>

\* the multiselect inputs
CodeLists == { <<>>, <<PL>>, <<PL, PD>> }
SeasonLists == { <<2024>>, <<2023, 2024>> }
\* datetime.utcnow().date() when the refresh button is pressed
Todays == { ToOrdinal(2024, 1, 3) }

\* rows of a cache file somebody else wrote
CsvRow(date, home, away, hg, ag, cname, ccode, season) ==
  [Date |-> date, HomeTeam |-> home, AwayTeam |-> away, FTHG |-> hg, FTAG |-> ag,
   Competition |-> cname, CompCode |-> ccode, Season |-> season]

CsvRows ==
  { CsvRow(Dec30, TeamB, TeamA, <<"0">>, <<"0">>, EPL, PL, <<"2", "0", "2", "3">>),
    CsvRow(Dec30, <<" ", "B">>, TeamA, <<"0">>, <<"0">>, EPL, PL, <<"2", "0", "2", "3">>) }

RECURSIVE SeqsUpTo(_, _)
\* the sequences over S of at most k elements
SeqsUpTo(S, k) ==
  IF k = 0 THEN {<<>>}
  ELSE LET T == SeqsUpTo(S, k - 1)
       IN  T \cup { Append(t, x) : t \in { u \in T : Len(u) = k - 1 }, x \in S }

CacheFiles == { File(rows) : rows \in SeqsUpTo(CsvRows, MaxFileRows) }

NoSel == [codes |-> <<>>, seasons |-> <<>>, today |-> 0]

Init ==
  /\ sess = None
  /\ cache \in {None} \cup CacheFiles
  /\ cache_init = (cache # None)
  /\ pc = "idle"
  /\ df_hist = None /\ have = {} /\ todo = <<>> /\ parts = <<>> /\ log = <<>> /\ skipped = {}
  /\ fetched = {}
  /\ sess0 = None /\ cache0 = None
  /\ action = "none" /\ outcome = "none" /\ sel = NoSel /\ requests = <<>>
  /\ clicks = 0
  /\ arg1 = None /\ arg2 = None /\ res1 = None /\ res2 = None /\ fn = "none"

\* what every button press records
Press(name, codes, seasons, today) ==
  /\ pc = "idle"
  /\ clicks < MaxClicks
  /\ clicks' = clicks + 1
  /\ action' = name
  /\ sel' = [codes |-> codes, seasons |-> seasons, today |-> today]

\* st.session_state.get("fd_hist", load_cache(cache_path))
SessionOrCache == IF sess # None THEN {sess} ELSE load_cache(cache)

\* lines 235-239
LoadCache ==
  /\ Press("load", <<>>, <<>>, 0)
  /\ \E df \in load_cache(cache) :
       sess' = IF df # None THEN df ELSE sess
  /\ outcome' = "done"
  /\ sess0' = None /\ cache0' = None
  /\ UNCHANGED <<cache, pc, ingestVars, fetched, requests, cache_init, fnVars>>

\* the (code, season) pairs in the order of the loops of lines 164-165
LoopPairs(codes, seasons) ==
  [k \in 1..(Len(codes) * Len(seasons)) |->
     <<codes[((k - 1) \div Len(seasons)) + 1], seasons[((k - 1) % Len(seasons)) + 1]>>]

\* lines 242-244 up to the loop of ingest_missing_seasons (lines 162-163)
IngestPress ==
  \E codes \in CodeLists, seasons \in SeasonLists :
    /\ Press("ingest", codes, seasons, 0)
    /\ \E df \in SessionOrCache :
         /\ df_hist' = df
         /\ have' = existing_comp_seasons(df)
    /\ todo' = LoopPairs(codes, seasons)
    /\ parts' = <<>> /\ log' = <<>> /\ skipped' = {}
    /\ pc' = "loop"
    /\ outcome' = "running"
    /\ sess0' = sess /\ cache0' = cache
    /\ UNCHANGED <<sess, cache, fetched, requests, cache_init, fnVars>>

NoPair == <<<<>>, 0>>

RECURSIVE Concat(_)
\* the rows of pd.concat(parts, ignore_index=True)
Concat(ps) == IF ps = <<>> THEN <<>> ELSE Head(ps) \o Concat(Tail(ps))

\* a slip: the season of the pair is not compared
in_have_code_only(pair, hv) == \E q \in hv : q[1] = pair[1]

\* line 166: (code, season) in have
in_have(pair, hv) == pair \in hv

\* lines 166-167
IngestSkip ==
  /\ pc = "loop" /\ todo # <<>>
  /\ in_have(Head(todo), have)
  /\ skipped' = skipped \cup {Head(todo)}
  /\ todo' = Tail(todo)
  /\ UNCHANGED <<sess, cache, pc, df_hist, have, parts, log, fetched, sess0, cache0,
                 action, outcome, sel, requests, clicks, cache_init, fnVars>>

\* a slip: no sleep after the last remote call of the run
IngestFetchNoSleepAfterLast ==
  /\ pc = "loop" /\ todo # <<>>
  /\ ~in_have(Head(todo), have)
  /\ \E part \in { normalize_payload(payload, Int_(Head(todo)[2])) :
                     payload \in fetch_competition_matches(Head(todo)[1], Head(todo)[2]) } :
       parts' = IF part # <<>> THEN Append(parts, part) ELSE parts
  /\ log' = Append(log, <<"fetch", Head(todo)>>)
  /\ fetched' = fetched \cup {Head(todo)}
  /\ IF Len(todo) = 1
     THEN pc' = "loop" /\ todo' = <<>>
     ELSE pc' = "sleep" /\ todo' = todo
  /\ UNCHANGED <<sess, cache, df_hist, have, skipped, sess0, cache0,
                 action, outcome, sel, requests, clicks, cache_init, fnVars>>

\* lines 168-171, the request answered
IngestFetch ==
  /\ pc = "loop" /\ todo # <<>>
  /\ ~in_have(Head(todo), have)
  /\ \E part \in { normalize_payload(payload, Int_(Head(todo)[2])) :
                     payload \in fetch_competition_matches(Head(todo)[1], Head(todo)[2]) } :
       parts' = IF part # <<>> THEN Append(parts, part) ELSE parts
  /\ log' = Append(log, <<"fetch", Head(todo)>>)
  /\ fetched' = fetched \cup {Head(todo)}
  /\ pc' = "sleep"
  /\ UNCHANGED <<sess, cache, df_hist, have, todo, skipped, sess0, cache0,
                 action, outcome, sel, requests, clicks, cache_init, fnVars>>

\* a slip: what was fetched before the failure is merged and saved
IngestFetchFailsSavesPartial ==
  /\ pc = "loop" /\ todo # <<>>
  /\ ~in_have(Head(todo), have)
  /\ log' = Append(log, <<"raise", Head(todo)>>)
  /\ pc' = "idle"
  /\ outcome' = "failed"
  /\ df_hist' = None /\ have' = {} /\ todo' = <<>>
  /\ \E df \in merge_dedup(df_hist, IF parts # <<>> THEN DF(Concat(parts)) ELSE None) :
       /\ sess' = df
       /\ cache' \in save_cache(df)
  /\ UNCHANGED <<parts, skipped, fetched, sess0, cache0,
                 action, sel, requests, clicks, cache_init, fnVars>>

\* line 168 raising (raise_for_status, a network error, no token): nothing
\* catches it, the handler ends at line 244
IngestFetchFails ==
  /\ pc = "loop" /\ todo # <<>>
  /\ ~in_have(Head(todo), have)
  /\ log' = Append(log, <<"raise", Head(todo)>>)
  /\ pc' = "idle"
  /\ outcome' = "failed"
  /\ df_hist' = None /\ have' = {} /\ todo' = <<>>
  /\ UNCHANGED <<sess, cache, parts, skipped, fetched, sess0, cache0,
                 action, sel, requests, clicks, cache_init, fnVars>>

\* line 172
IngestSleep ==
  /\ pc = "sleep"
  /\ log' = Append(log, <<"sleep", Head(todo)>>)
  /\ todo' = Tail(todo)
  /\ pc' = "loop"
  /\ UNCHANGED <<sess, cache, df_hist, have, parts, skipped, fetched, sess0, cache0,
                 action, outcome, sel, requests, clicks, cache_init, fnVars>>

\* lines 173-174, then lines 245-246 of the handler
IngestReturn ==
  /\ pc = "loop" /\ todo = <<>>
  /\ LET incoming == IF parts # <<>> THEN DF(Concat(parts)) ELSE None
     IN  \E df \in merge_dedup(df_hist, incoming) :
           /\ sess' = df
           /\ cache' \in save_cache(df)
  /\ log' = Append(log, <<"merge", NoPair>>)
  /\ pc' = "idle"
  /\ outcome' = "done"
  /\ sess0' = None /\ cache0' = None
  /\ have' = {} /\ parts' = <<>>
  /\ UNCHANGED <<df_hist, todo, skipped, fetched,
                 action, sel, requests, clicks, cache_init, fnVars>>

\* lines 177-183: the query refresh_last_7_days sends
refresh_params(codes, today) ==
  LET date_to == today
      date_from == date_to - 7
  IN  by_date_params(DateToChars(date_from), DateToChars(date_to), Join(<<",">>, codes))

\* lines 251-254, the request answered
Refresh ==
  \E codes \in CodeLists, today \in Todays :
    /\ Press("refresh", codes, <<>>, today)
    /\ requests' = <<refresh_params(codes, today)>>
    /\ \E df0 \in SessionOrCache,
          incoming \in { normalize_payload(payload, None) :
                         payload \in matches_by_date(refresh_params(codes, today)) } :
         \E df \in merge_dedup(df0, DF(incoming)) :
           /\ sess' = df
           /\ cache' \in save_cache(df)
    /\ outcome' = "done"
    /\ sess0' = None /\ cache0' = None
    /\ UNCHANGED <<pc, ingestVars, fetched, cache_init, fnVars>>

\* line 252 raising inside fetch_matches_by_date
RefreshFails ==
  \E codes \in CodeLists, today \in Todays :
    /\ Press("refresh", codes, <<>>, today)
    /\ requests' = <<refresh_params(codes, today)>>
    /\ outcome' = "failed"
    /\ sess0' = sess /\ cache0' = cache
    /\ UNCHANGED <<sess, cache, pc, ingestVars, fetched, cache_init, fnVars>>

Next ==
  \/ LoadCache
  \/ IngestPress
  \/ IngestSkip
  \/ IngestFetch
  \/ IngestFetchFails
  \/ IngestSleep
  \/ IngestReturn
  \/ Refresh
  \/ RefreshFails

Spec == Init /\ [][Next]_vars

(* ---------------------- the functions on their own --------------------- *)
Row(date, home, away, hg, ag, cname, ccode, season) ==
  [Date |-> date, HomeTeam |-> home, AwayTeam |-> away, FTHG |-> hg, FTAG |-> ag,
   Competition |-> cname, CompCode |-> ccode, Season |-> season]

Jan02Day == ToOrdinal(2024, 1, 2)
Prem == <<"P", "r", "e", "m">>

\* rows of a record collection before it is standardized
RowA == Row(Ts(Jan02Day), Str(TeamA), Str(TeamB), Int_(1), Int_(0), Str(EPL), Str(PL), Int_(2023))
RowAPrem == Row(Ts(Jan02Day), Str(TeamA), Str(TeamB), Int_(1), Int_(0), Str(Prem), Str(PL), Int_(2023))
RowAPadded == Row(Ts(Jan02Day), Str(<<" ", "A">>), Str(TeamB), Int_(1), Int_(0), Str(EPL), Str(PL), Int_(2023))
RowEarly == Row(Str(Dec30), Str(TeamB), Str(TeamA), Int_(0), Int_(0), Str(EPL), Str(PL), Str(<<"x">>))
RowC == Row(Ts(Jan02Day), Str(TeamC), Str(TeamD), Int_(2), Int_(1), Str(LaLiga), Str(PD), Int_(2023))
RowNoDate == Row(Str(NoDate), Str(TeamA), Str(TeamB), Int_(1), Int_(0), Str(EPL), Str(PL), Int_(2023))
RowMissing == Row(None, None, Str(TeamB), NaN, Int_(0), None, Str(PL), None)

RawRows == { RowA, RowAPrem, RowAPadded, RowEarly, RowC, RowNoDate, RowMissing }
IncomingRows == { RowA, RowAPrem, RowC }

Collections == {None} \cup { DF(rows) : rows \in SeqsUpTo(RawRows, MaxLen) }
Incomings == {None} \cup { DF(rows) : rows \in SeqsUpTo(IncomingRows, MaxIncoming) }

InitFn ==
  /\ sess = None /\ cache = None /\ cache_init = FALSE
  /\ pc = "idle"
  /\ df_hist = None /\ have = {} /\ todo = <<>> /\ parts = <<>> /\ log = <<>> /\ skipped = {}
  /\ fetched = {}
  /\ sess0 = None /\ cache0 = None
  /\ action = "none" /\ outcome = "none" /\ sel = NoSel /\ requests = <<>>
  /\ clicks = 0
  /\ arg1 \in Collections
  /\ arg2 = None /\ res1 = None /\ res2 = None /\ fn = "none"

sessionVars == <<sess, cache, pc, df_hist, have, todo, parts, log, skipped, fetched, sess0, cache0,
                 action, outcome, sel, requests, clicks, cache_init>>

\* res1 = _standardize(arg1), res2 = _standardize(res1)
ApplyStandardize ==
  /\ fn = "none"
  /\ \E out \in standardize(arg1) :
       /\ res1' = out
       /\ res2' \in standardize(out)
  /\ arg2' = None
  /\ fn' = "standardize"
  /\ UNCHANGED <<arg1, sessionVars>>

\* res1 = merge_dedup(arg1, arg2)
ApplyMergeDedup ==
  /\ fn = "none"
  /\ \E incoming \in Incomings :
       /\ arg2' = incoming
       /\ res1' \in merge_dedup(arg1, incoming)
  /\ res2' = None
  /\ fn' = "merge_dedup"
  /\ UNCHANGED <<arg1, sessionVars>>

NextFn == ApplyStandardize \/ ApplyMergeDedup

SpecFn == InitFn /\ [][NextFn]_vars

(* ------------------------------ properties ----------------------------- *)
Sorted(rows) == \A i, j \in 1..Len(rows) : i < j => rows[i].Date[2] <= rows[j].Date[2]
NoDuplicates(rows) == \A i, j \in 1..Len(rows) : i < j => IdentityKey(rows[i]) # IdentityKey(rows[j])
RowSet(rows) == { rows[i] : i \in 1..Len(rows) }
KeySet(rows) == { IdentityKey(rows[i]) : i \in 1..Len(rows) }
\* the rows of _standardize(df), in one of the orders it may give them
StdRows(df) == Rows(CHOOSE x \in standardize(df) : TRUE)
\* the pairs of the remote calls of a run, in order, a failed call included
Calls(lg) ==
  LET IsCall(e) == e[1] \in {"fetch", "raise"}
      c == SelectSeq(lg, IsCall)
  IN  [i \in 1..Len(c) |-> c[i][2]]
CountOf(lg, kind) == Cardinality({ i \in 1..Len(lg) : lg[i][1] = kind })

\* C1: when a remote call of an ingest or refresh fails, the session
\* dataset and the cache file are what they were when the button was pressed.
C1_FailedActionChangesNothing ==
  outcome = "failed" => (sess = sess0 /\ cache = cache0)

\* an ingest whose first fetch brought rows and whose second fetch failed,
\* in a session that already holds a dataset
C1_Witness ==
  /\ outcome = "failed" /\ action = "ingest"
  /\ CountOf(log, "fetch") >= 1 /\ parts # <<>>
  /\ sess # None /\ cache # None

\* the requested pairs ingest_missing_seasons fetches are those missing from
\* existing_comp_seasons(df_hist), in loop order
FetchesExactlyMissing ==
  LET hv == existing_comp_seasons(df_hist)
      Missing(p) == p \notin hv
  IN  Calls(log) = SelectSeq(LoopPairs(sel.codes, sel.seasons), Missing)

NothingMissing ==
  LET hv == existing_comp_seasons(df_hist)
  IN  \A i \in 1..Len(sel.codes), j \in 1..Len(sel.seasons) : <<sel.codes[i], sel.seasons[j]>> \in hv

\* C2 as amended: a finished ingest called the remote client for exactly the
\* requested pairs missing from existing_comp_seasons(dataset); with no pair
\* missing it made no call and returned the dataset standardized: the same
\* identity keys, one record of the dataset for each, sorted by date.
C2_FetchesExactlyMissing ==
  (action = "ingest" /\ outcome = "done") =>
    /\ FetchesExactlyMissing
    /\ NothingMissing =>
         /\ Calls(log) = <<>>
         /\ sess # None
         /\ KeySet(Rows(sess)) = KeySet(StdRows(df_hist))
         /\ RowSet(Rows(sess)) \subseteq RowSet(StdRows(df_hist))
         /\ NoDuplicates(Rows(sess)) /\ Sorted(Rows(sess))

\* an ingest that skipped every pair it was asked for, having rows to return
C2_Witness ==
  /\ action = "ingest" /\ outcome = "done"
  /\ skipped # {} /\ Calls(log) = <<>>
  /\ sess # None /\ Rows(sess) # <<>>

\* C2 as stated: ... and with no pair missing the dataset is returned unchanged.
C2_ReturnsDatasetUnchanged ==
  (action = "ingest" /\ outcome = "done") =>
    /\ FetchesExactlyMissing
    /\ NothingMissing => (Calls(log) = <<>> /\ sess = df_hist)

\* C3: the session dataset never holds two records with the same identity key.
C3_NoDuplicateKeys ==
  sess # None => NoDuplicates(Rows(sess))

\* C4: whatever _standardize and merge_dedup return is non-decreasing by Date.
C4_SortedByDate ==
  /\ res1 # None => Sorted(Rows(res1))
  /\ res2 # None => Sorted(Rows(res2))

\* a result of two rows or more that came in another order than by date
C4_Witness ==
  /\ fn = "merge_dedup" /\ arg1 # None /\ arg2 # None
  /\ ~Sorted(CoerceRows(Rows(arg1)) \o CoerceRows(Rows(arg2)))
  /\ Len(Rows(res1)) >= 2

\* C5: a key that existing and incoming both hold has exactly one record in
\* merge_dedup(existing, incoming), and that record is one of incoming.
C5_IncomingWins ==
  fn = "merge_dedup" =>
    \A k \in KeySet(StdRows(arg1)) \cap KeySet(StdRows(arg2)) :
      /\ Cardinality({ i \in 1..Len(Rows(res1)) : IdentityKey(Rows(res1)[i]) = k }) = 1
      /\ \A i \in 1..Len(Rows(res1)) :
           IdentityKey(Rows(res1)[i]) = k => Rows(res1)[i] \in RowSet(StdRows(arg2))

\* both hold the same key with another competition name, and the result
\* holds the incoming name
C5_Witness ==
  /\ fn = "merge_dedup"
  /\ \E a \in RowSet(StdRows(arg1)), b \in RowSet(StdRows(arg2)) :
       /\ IdentityKey(a) = IdentityKey(b)
       /\ a.Competition # b.Competition
       /\ b \in RowSet(Rows(res1))

\* C6: merge_dedup(D, empty) is a frame _standardize(D) can return.
C6_MergeEmptyIsStandardize ==
  (fn = "merge_dedup" /\ (arg2 = None \/ arg2 = EmptyFrame)) => res1 \in standardize(arg1)

\* C7: _standardize(_standardize(R)) is _standardize(R), rows in the same order.
C7_StandardizeIdempotent ==
  fn = "standardize" => res2 = res1

\* C8: in the log of an ingest every fetch is followed at once by its sleep,
\* every sleep follows a fetch, the merge comes last and after a sleep when
\* anything was fetched, and outside a sleep there are as many sleeps as fetches.
C8_SleepAfterEveryFetch ==
  /\ \A i \in 1..Len(log) :
       /\ log[i][1] = "fetch" =>
            IF i < Len(log) THEN log[i + 1] = <<"sleep", log[i][2]>> ELSE pc = "sleep"
       /\ log[i][1] = "sleep" => (i > 1 /\ log[i - 1][1] = "fetch")
       /\ log[i][1] = "merge" =>
            (i = Len(log) /\ (i > 1 => log[i - 1][1] = "sleep"))
  /\ pc # "sleep" => CountOf(log, "sleep") = CountOf(log, "fetch")

\* a finished ingest of two fetches
C8_Witness ==
  /\ action = "ingest" /\ outcome = "done"
  /\ CountOf(log, "fetch") >= 2
  /\ log[Len(log)][1] = "merge"

\* the codes a competitions parameter restricts the query to
RestrictedTo(params) ==
  IF params.competitions[2] = <<>> THEN <<>> ELSE SplitComma(params.competitions[2])

\* C9: a refresh sends one query, from today - 7 to today, restricted to
\* exactly the given codes in the given order.
C9_OneQueryForGivenCodes ==
  action = "refresh" =>
    /\ Len(requests) = 1
    /\ IsDateText(requests[1].dateFrom) /\ ParseDateText(requests[1].dateFrom) = sel.today - 7
    /\ IsDateText(requests[1].dateTo) /\ ParseDateText(requests[1].dateTo) = sel.today
    /\ requests[1].competitions # None
    /\ RestrictedTo(requests[1]) = sel.codes

\* C10: in a session that started without a cache file, an ingest skips only
\* pairs that an earlier ingest fetched.
C10_SkipsOnlyFetched ==
  ~cache_init => skipped \subseteq fetched

====
